---- MODULE Spec2Model ----
(***************************************************************************)
(* A model of simtrans' VRML writer (src/simtrans/vrml.py) and SDF reader  *)
(* (src/simtrans/sdf.py).                                                  *)
(*                                                                         *)
(*  SpecWrite : a VRMLWriter object and a sequence of write() calls on it. *)
(*  SpecGraph : findroot() and findchildren() applied to a drawn Model.    *)
(*  SpecRead  : SDFReader.read(), readJointType() and readShape() applied  *)
(*              to a drawn document, type string or geometry element.      *)
(***************************************************************************)
EXTENDS Integers, Sequences, FiniteSets, TLC

VARIABLES
    linkmap,   \* VRMLWriter._linkmap: link name -> LinkModel object
    calls,     \* number of write() calls made on the writer so far
    mdata,     \* the Model passed to the current / last call
    doc,       \* the input of a reader call (document, type string, geometry)
    outcome    \* what the last call returned or raised

vars == <<linkmap, calls, mdata, doc, outcome>>

----------------------------------------------------------------------------
(* Bounds *)

\* longest joint sequence of a Model handed to write()
MaxJoints == 2
\* number of write() calls made on one writer
MaxWrites == 2
\* longest joint sequence of a Model handed to findroot()/findchildren()
MaxGraphJoints == 3
\* most children of one <geometry> element
MaxGeom == 2
\* most <link> elements of a document
MaxLinkElems == 1
\* most <joint> elements of a document
MaxJointElems == 2

\* link names, in the order a Model lists its links
NameOrder == <<"A", "B", "C">>
Names == {NameOrder[i] : i \in DOMAIN NameOrder}

----------------------------------------------------------------------------
(* The Model data structure (model.BodyModel, LinkModel, JointModel).      *)

\* A LinkModel object.  mid identifies the Model that owns the object: the
\* links of two Models are distinct objects even when their names agree.
LinkModel(name, mid) == [name |-> name, mid |-> mid]

\* A JointModel object of a Model: the id is its position in mdata.joints.
JointModel(i, parent, child) == [id |-> i, parent |-> parent, child |-> child]

\* mdata.links for the links named in S, owned by Model mid
LinkSeq(S, mid) ==
    LET pick == SelectSeq(NameOrder, LAMBDA n : n \in S)
    IN  [i \in DOMAIN pick |-> LinkModel(pick[i], mid)]

\* mdata.joints for a sequence of <<parent, child>> pairs
JointSeq(ps) == [i \in DOMAIN ps |-> JointModel(i, ps[i][1], ps[i][2])]

PairSeqs(n) == UNION {[1..k -> Names \X Names] : k \in 0..n}

BodyModel(S, ps, mid) == [links |-> LinkSeq(S, mid), joints |-> JointSeq(ps)]

\* the Models write() is called with: Model mid has any subset of the names
\* as links and any joint sequence over the names, dangling ones included
WriteModels(mid) ==
    {BodyModel(S, ps, mid) : S \in SUBSET Names, ps \in PairSeqs(MaxJoints)}

GraphModels ==
    {BodyModel(Names, ps, 1) : ps \in PairSeqs(MaxGraphJoints)}

NoModel == [links |-> <<>>, joints |-> <<>>]

----------------------------------------------------------------------------
(* Python values as arguments of ==                                        *)

\* a str argument
StrKey(s) == [t |-> "str", v |-> s]
\* a LinkModel object argument
ObjKey(l) == [t |-> "obj", v |-> l]

\* `j.parent == linkname`: j.parent is a str; a str equals only an equal
\* str, never a LinkModel object
PyEq(s, key) == key.t = "str" /\ key.v = s

----------------------------------------------------------------------------
(* VRMLWriter.findchildren                                                 *)

RECURSIVE FindChildrenLoop(_, _, _, _)
FindChildrenLoop(joints, key, i, children) ==
    IF i > Len(joints) THEN children
    ELSE FindChildrenLoop(joints, key, i + 1,
             IF PyEq(joints[i].parent, key)
             THEN Append(children, joints[i])
             ELSE children)

\* the scan selects on j.child instead of j.parent
findchildrenMutant(m, key) == SelectSeq(m.joints, LAMBDA j : PyEq(j.child, key))
findchildren(m, key) == FindChildrenLoop(m.joints, key, 1, <<>>)

----------------------------------------------------------------------------
(* VRMLWriter.findroot                                                     *)

\* first loop: joints[j.parent] = 1 for every joint (the dict's key set)
RECURSIVE AddParents(_, _, _)
AddParents(joints, i, d) ==
    IF i > Len(joints) THEN d
    ELSE AddParents(joints, i + 1, d \cup {joints[i].parent})

\* second loop: del joints[j.child], a missing key is ignored
RECURSIVE DelChildren(_, _, _)
DelChildren(joints, i, d) ==
    IF i > Len(joints) THEN d
    ELSE DelChildren(joints, i + 1, d \ {joints[i].child})

\* joints.keys(): a list (the docstring shows ['pelvis'], Python 2) holding
\* each remaining key once; its order is the dict's hash order, so the
\* result is modelled as the set of keys and [0] as any element of it
\* (the mutant leaves out the second loop)
findrootMutant(m) == AddParents(m.joints, 1, {})
findroot(m) == DelChildren(m.joints, 1, AddParents(m.joints, 1, {}))

----------------------------------------------------------------------------
(* VRMLWriter.write and VRMLWriter.convertchildren                         *)

EmptyMap == [n \in {} |-> LinkModel("", 0)]

\* for m in mdata.links: self._linkmap[m.name] = m
RECURSIVE LoadLinks(_, _, _)
LoadLinks(lm, links, i) ==
    IF i > Len(links) THEN lm
    ELSE LoadLinks([n \in DOMAIN lm \cup {links[i].name} |->
                       IF n = links[i].name THEN links[i] ELSE lm[n]],
                   links, i + 1)

KeyError(k) == [kind |-> "error", exc |-> "KeyError", key |-> k]
IndexError == [kind |-> "error", exc |-> "IndexError"]
Nodes(ns) == [kind |-> "ok", nodes |-> ns]

RECURSIVE convertchildren(_, _, _)
RECURSIVE ConvertLoop(_, _, _, _, _)
\* the body of the for loop of convertchildren, from the i-th child joint on
ConvertLoop(lm, m, cjs, i, children) ==
    IF i > Len(cjs) THEN Nodes(children)
    ELSE LET cjoint == cjs[i]
         IN  IF cjoint.child \notin DOMAIN lm THEN KeyError(cjoint.child)
             ELSE LET nlink == lm[cjoint.child]
                      sub == convertchildren(lm, m, ObjKey(nlink))
                  IN  IF sub.kind = "error" THEN sub
                      ELSE ConvertLoop(lm, m, cjs, i + 1,
                               Append(children,
                                      [joint |-> cjoint, link |-> nlink,
                                       children |-> sub.nodes]))

convertchildren(lm, m, key) == ConvertLoop(lm, m, findchildren(m, key), 1, <<>>)

\* the synthetic joint of the root node
RootJoint(root) == [name |-> root, jointType |-> "fixed"]

\* write() from the lookup of the root on: the nested structure handed to
\* the template, or the exception raised
WriteFrom(lm, m, root) ==
    IF root \notin DOMAIN lm
    THEN [op |-> "write", root |-> root] @@ KeyError(root)
    ELSE LET ch == convertchildren(lm, m, StrKey(root))
         IN  IF ch.kind = "error"
             THEN [op |-> "write", root |-> root] @@ ch
             ELSE [op |-> "write", root |-> root, kind |-> "ok",
                   tree |-> [link |-> lm[root], joint |-> RootJoint(root),
                             children |-> ch.nodes]]

NoOutcome == [op |-> "none", kind |-> "none"]

InitWrite ==
    /\ linkmap = EmptyMap
    /\ calls = 0
    /\ mdata = NoModel
    /\ doc = [op |-> "none"]
    /\ outcome = NoOutcome

\* one write(mdata, fname) call on the writer
Write(m) ==
    /\ calls < MaxWrites
    /\ LET lm == LoadLinks(linkmap, m.links, 1)
           roots == findroot(m)
       IN  /\ linkmap' = lm
           /\ IF roots = {}
              THEN outcome' = [op |-> "write"] @@ IndexError
              ELSE \E root \in roots : outcome' = WriteFrom(lm, m, root)
    /\ mdata' = m
    /\ calls' = calls + 1
    /\ UNCHANGED doc

NextWrite == \E m \in WriteModels(calls + 1) : Write(m)

SpecWrite == InitWrite /\ [][NextWrite]_vars

----------------------------------------------------------------------------
(* Vocabulary of the claims about write()                                  *)

LinkNames(m) == {m.links[i].name : i \in DOMAIN m.links}
ParentNames(m) == {m.joints[i].parent : i \in DOMAIN m.joints}
ChildNames(m) == {m.joints[i].child : i \in DOMAIN m.joints}
\* P \ C of the specification's root-finding
RootCandidates(m) == ParentNames(m) \ ChildNames(m)

LinkNamed(m, n) == m.links[CHOOSE i \in DOMAIN m.links : m.links[i].name = n]

\* the names reachable from the names in S over at most k joints
RECURSIVE ReachFrom(_, _, _)
ReachFrom(m, S, k) ==
    IF k = 0 THEN S
    ELSE ReachFrom(m,
             S \cup {m.joints[i].child :
                        i \in {j \in DOMAIN m.joints : m.joints[j].parent \in S}},
             k - 1)

Reachable(m, r) == ReachFrom(m, {r}, Len(m.joints))

\* the joints whose parent is reachable from r
ReachedJoints(m, r) == {i \in DOMAIN m.joints : m.joints[i].parent \in Reachable(m, r)}

\* one root, every other link the child of exactly one joint, every joint
\* between links of the Model, every link below the root; with a joint, so
\* that the root is a parent
TreeShaped(m) ==
    /\ m.joints # <<>>
    /\ ParentNames(m) \cup ChildNames(m) \subseteq LinkNames(m)
    /\ \E r \in LinkNames(m) :
          /\ r \notin ChildNames(m)
          /\ Reachable(m, r) = LinkNames(m)
          /\ \A n \in LinkNames(m) \ {r} :
                Cardinality({i \in DOMAIN m.joints : m.joints[i].child = n}) = 1

TreeRoot(m) == CHOOSE r \in LinkNames(m) : r \notin ChildNames(m)

\* the nested structure of a tree-shaped Model: the node of link n, entered
\* by joint, its children the child links of the joints whose parent is n,
\* in joint-sequence order
RECURSIVE TreeNode(_, _, _)
TreeNode(m, n, joint) ==
    LET out == SelectSeq(m.joints, LAMBDA j : j.parent = n)
    IN  [link |-> LinkNamed(m, n), joint |-> joint,
         children |-> [i \in DOMAIN out |-> TreeNode(m, out[i].child, out[i])]]

\* the link objects placed in a nested structure
RECURSIVE TreeLinks(_)
TreeLinks(node) ==
    {node.link} \cup UNION {TreeLinks(node.children[i]) : i \in DOMAIN node.children}

Wrote == outcome.op = "write"
Failed(exc) == outcome.kind = "error" /\ outcome.exc = exc

\* C1: for every tree-shaped Model, write() builds the nested structure in
\* which every link appears once, at the depth of its path from the root,
\* the children of a node being the child links of the joints whose parent is
\* the node's link, in joint-sequence order.
C1_TreeOfTreeShapedModel ==
    (Wrote /\ TreeShaped(mdata)) =>
        /\ outcome.kind = "ok"
        /\ outcome.tree = TreeNode(mdata, TreeRoot(mdata), RootJoint(TreeRoot(mdata)))

\* C3: with more than one root candidate the conversion fails with
\* AmbiguousRoot: no root is chosen and no nested structure is built.
C3_AmbiguousRootFails ==
    (/\ Wrote
     /\ ParentNames(mdata) \cup ChildNames(mdata) \subseteq LinkNames(mdata)
     /\ Cardinality(RootCandidates(mdata)) > 1) => Failed("AmbiguousRoot")

\* C4: with no root candidate the conversion fails with the typed
\* NoRootFound error and produces no tree.
C4_NoRootFoundFails ==
    (Wrote /\ RootCandidates(mdata) = {}) => Failed("NoRootFound")

\* two distinct joints below the root lead to the same link: the link is
\* reachable over two paths, or lies on a cycle reachable from the root
NotATreeBelow(m, r) ==
    \E i, j \in ReachedJoints(m, r) : i # j /\ m.joints[i].child = m.joints[j].child

\* C5: on a joint graph that is not a tree below the root (a link reachable
\* over two distinct paths, or a cycle reachable from the root) tree
\* construction fails with NotATree instead of emitting a nested structure.
C5_NotATreeFails ==
    (/\ Wrote
     /\ "root" \in DOMAIN outcome
     /\ ParentNames(mdata) \cup ChildNames(mdata) \subseteq LinkNames(mdata)
     /\ NotATreeBelow(mdata, outcome.root)) => Failed("NotATree")

\* what the same call returns on a fresh writer, with the same root chosen
FreshOutcome(m, o) ==
    IF "root" \in DOMAIN o
    THEN WriteFrom(LoadLinks(EmptyMap, m.links, 1), m, o.root)
    ELSE [op |-> "write"] @@ IndexError

\* C6: the outcome of a write depends only on the Model passed to the call:
\* every call on a writer yields the outcome it yields on a fresh writer.
C6_OutcomeAsOnFreshWriter ==
    Wrote => outcome = FreshOutcome(mdata, outcome)

\* the root, or the child of a joint whose parent is the root, is not the
\* name of a link of the Model
DanglingReached(m, r) ==
    \/ r \notin LinkNames(m)
    \/ \E i \in DOMAIN m.joints :
          m.joints[i].parent = r /\ m.joints[i].child \notin LinkNames(m)

\* C7: when a joint reached by the conversion names a link the Model does not
\* have, the conversion fails; it never completes with a tree, so never
\* resolves the name to some other link.  (The claim also names the error,
\* DanglingReference; the formula asks only that the call fail.)
C7_DanglingReferenceFails ==
    (Wrote /\ "root" \in DOMAIN outcome /\ DanglingReached(mdata, outcome.root))
        => outcome.kind = "error"

----------------------------------------------------------------------------
(* findroot() and findchildren() called on a Model                         *)

InitGraph ==
    /\ linkmap = EmptyMap
    /\ calls = 0
    /\ mdata \in GraphModels
    /\ doc = [op |-> "none"]
    /\ outcome = NoOutcome

FindRoot ==
    /\ outcome.op = "none"
    /\ outcome' = [op |-> "findroot", kind |-> "ok", roots |-> findroot(mdata)]
    /\ UNCHANGED <<linkmap, calls, mdata, doc>>

FindChildren(L) ==
    /\ outcome.op = "none"
    /\ outcome' = [op |-> "findchildren", kind |-> "ok", linkname |-> L,
                   children |-> findchildren(mdata, StrKey(L))]
    /\ UNCHANGED <<linkmap, calls, mdata, doc>>

NextGraph ==
    \/ FindRoot
    \/ \E L \in Names : FindChildren(L)

SpecGraph == InitGraph /\ [][NextGraph]_vars

\* the Model with links A, B, C and joints A->B, B->C
ChainABC == BodyModel(Names, <<<<"A", "B">>, <<"B", "C">>>>, 1)

\* C2: findroot returns exactly P \ C, P the names that occur as a joint's
\* parent and C the names that occur as a joint's child.
C2_FindRootIsParentsMinusChildren ==
    outcome.op = "findroot" => outcome.roots = RootCandidates(mdata)

\* findroot on joints A->B, B->C has returned {A}
C2_Witness ==
    outcome.op = "findroot" /\ mdata = ChainABC /\ outcome.roots = {"A"}

\* the result of findchildren(L): the joints whose parent is L, each once,
\* in joint-sequence order
C8_ChildrenInOrder ==
    outcome.op = "findchildren" =>
        LET js == mdata.joints
            sel == {i \in DOMAIN js : js[i].parent = outcome.linkname}
            ch == outcome.children
        IN  /\ Len(ch) = Cardinality(sel)
            /\ \A k \in DOMAIN ch : ch[k].id \in sel /\ ch[k] = js[ch[k].id]
            /\ \A k, l \in DOMAIN ch : k < l => ch[k].id < ch[l].id

\* C8: findchildren(L) returns exactly the joints whose parent equals L, each
\* once, in the order of the Model's joint sequence, and leaves the Model's
\* links and joints unchanged.
C8_FindChildren ==
    /\ []C8_ChildrenInOrder
    /\ [][outcome'.op = "findchildren" => mdata' = mdata]_vars

\* findchildren(B) on joints A->B, B->C has returned exactly the B->C joint
C8_Witness ==
    /\ outcome.op = "findchildren" /\ outcome.linkname = "B"
    /\ mdata = ChainABC
    /\ outcome.children = <<JointModel(2, "B", "C")>>

----------------------------------------------------------------------------
(* SDFReader: the documents                                                *)

\* joint type strings of a document
JointTypeStrings == {"fixed", "revolute", "prismatic", "screw", "teleport", "ball"}

\* tags of the children of a <geometry> element
GeometryTags == {"mesh", "box", "cylinder", "sphere", "cone"}

\* extensions of the file a mesh's <uri> resolves to
MeshExts == {".dae", ".STL", ".obj"}

\* what tells the content of one element from another's (the numbers of a
\* size, radius or length field, the file a uri names)
Payloads == {1, 2}

\* a child of <geometry>: only a mesh has a uri
GeomChildren ==
    {[tag |-> "mesh", ext |-> e, val |-> v] : e \in MeshExts, v \in Payloads}
    \cup {[tag |-> t, ext |-> "", val |-> v] :
             t \in GeometryTags \ {"mesh"}, v \in Payloads}

SeqsUpTo(S, n) == UNION {[1..k -> S] : k \in 0..n}

\* a <visual> element
Visuals(n) == {[name |-> "visual", geometry |-> g] : g \in SeqsUpTo(GeomChildren, n)}

\* the <link> elements of a document: each with no visual or one visual of
\* one geometry child
LinkElems ==
    {[name |-> "link", visuals |-> vs] :
        vs \in SeqsUpTo({v \in Visuals(1) : Len(v.geometry) = 1 /\ v.geometry[1].val = 1}, 1)}

JointElems ==
    {[name |-> "joint", type |-> t, parent |-> "A", child |-> "B"] :
        t \in JointTypeStrings}

Docs ==
    {[name |-> "model", links |-> ls, joints |-> js] :
        ls \in SeqsUpTo(LinkElems, MaxLinkElems),
        js \in SeqsUpTo(JointElems, MaxJointElems)}

----------------------------------------------------------------------------
(* SDFReader.readJointType                                                 *)

\* the enumerants model.JointModel.J_* and model.ShapeModel.SP_*
J_FIXED == "Fixed"
J_REVOLUTE == "Revolute"
J_PRISMATIC == "Prismatic"
J_SCREW == "Screw"
SP_MESH == "Mesh"
SP_BOX == "Box"
SP_CYLINDER == "Cylinder"
SP_SPHERE == "Sphere"

\* raise Exception(fmt % arg): the message is the format's text followed by
\* the argument
Exception(text, arg) == [kind |-> "error", exc |-> "Exception", msg |-> <<text, arg>>]
Return(v) == [kind |-> "ok", value |-> v]

\* the 'screw' branch returns the enumerant of the branch above it
readJointTypeMutant(d) ==
    IF d = "fixed" THEN Return(J_FIXED)
    ELSE IF d = "revolute" THEN Return(J_REVOLUTE)
    ELSE IF d = "prismatic" THEN Return(J_PRISMATIC)
    ELSE IF d = "screw" THEN Return(J_PRISMATIC)
    ELSE Exception("unsupported joint type: ", d)
readJointType(d) ==
    IF d = "fixed" THEN Return(J_FIXED)
    ELSE IF d = "revolute" THEN Return(J_REVOLUTE)
    ELSE IF d = "prismatic" THEN Return(J_PRISMATIC)
    ELSE IF d = "screw" THEN Return(J_SCREW)
    ELSE Exception("unsupported joint type: ", d)

----------------------------------------------------------------------------
(* SDFReader.readShape                                                     *)

\* model.ShapeModel(): no shape type and no data yet
ShapeModel(name) == [name |-> name, shapeType |-> "None", data |-> [cls |-> "None"]]

\* str.lower() on the extensions of MeshExts
Lower(e) == IF e = ".STL" THEN ".stl" ELSE e

\* the body of the for loop over the geometry's children, from the i-th on
RECURSIVE ShapeLoop(_, _, _)
ShapeLoop(gs, i, m) ==
    IF i > Len(gs) THEN Return(m)
    ELSE LET g == gs[i] IN
         IF g.tag = "mesh" THEN
             LET fileext == Lower(g.ext) IN
             IF fileext = ".dae"
             THEN ShapeLoop(gs, i + 1,
                      [m EXCEPT !.shapeType = SP_MESH,
                                !.data = [cls |-> "ColladaReader.read", val |-> g.val]])
             ELSE IF fileext = ".stl"
             THEN ShapeLoop(gs, i + 1,
                      [m EXCEPT !.shapeType = SP_MESH,
                                !.data = [cls |-> "STLReader.read", val |-> g.val]])
             ELSE Exception("unsupported mesh format: ", fileext)
         ELSE IF g.tag = "box"
         THEN ShapeLoop(gs, i + 1,
                  [m EXCEPT !.shapeType = SP_BOX,
                            !.data = [cls |-> "BoxData", val |-> g.val]])
         ELSE IF g.tag = "cylinder"
         THEN ShapeLoop(gs, i + 1,
                  [m EXCEPT !.shapeType = SP_CYLINDER,
                            !.data = [cls |-> "CylinderData", val |-> g.val]])
         ELSE IF g.tag = "sphere"
         THEN ShapeLoop(gs, i + 1,
                  [m EXCEPT !.shapeType = SP_SPHERE,
                            !.data = [cls |-> "SphereData", val |-> g.val]])
         ELSE Exception("unsupported shape type: ", g.tag)

\* the loop stops after the first child: the first child wins
readShapeMutant(d) ==
    ShapeLoop(SubSeq(d.geometry, 1, IF d.geometry = <<>> THEN 0 ELSE 1), 1,
              ShapeModel(d.name))
readShape(d) == ShapeLoop(d.geometry, 1, ShapeModel(d.name))

----------------------------------------------------------------------------
(* SDFReader.read                                                          *)

\* lm.visuals.append(self.readShape(v)) for the visuals from the i-th on
RECURSIVE ReadVisuals(_, _, _)
ReadVisuals(vs, i, visuals) ==
    IF i > Len(vs) THEN Return(visuals)
    ELSE LET r == readShape(vs[i])
         IN  IF r.kind = "error" THEN r
             ELSE ReadVisuals(vs, i + 1, Append(visuals, r.value))

\* the loop over the <link> elements, from the i-th on
RECURSIVE ReadLinks(_, _, _)
ReadLinks(ls, i, links) ==
    IF i > Len(ls) THEN Return(links)
    ELSE LET r == ReadVisuals(ls[i].visuals, 1, <<>>)
         IN  IF r.kind = "error" THEN r
             ELSE ReadLinks(ls, i + 1,
                      Append(links, [name |-> ls[i].name, visuals |-> r.value]))

\* the loop over the <joint> elements, from the i-th on
RECURSIVE ReadJoints(_, _, _)
ReadJoints(js, i, joints) ==
    IF i > Len(js) THEN Return(joints)
    ELSE LET r == readJointType(js[i].type)
         IN  IF r.kind = "error" THEN r
             ELSE ReadJoints(js, i + 1,
                      Append(joints, [name |-> js[i].name, jointType |-> r.value,
                                      parent |-> js[i].parent, child |-> js[i].child]))

read(d) ==
    LET ls == ReadLinks(d.links, 1, <<>>)
    IN  IF ls.kind = "error" THEN ls
        ELSE LET js == ReadJoints(d.joints, 1, <<>>)
             IN  IF js.kind = "error" THEN js
                 ELSE Return([name |-> d.name, links |-> ls.value, joints |-> js.value])

InitRead ==
    /\ linkmap = EmptyMap
    /\ calls = 0
    /\ mdata = NoModel
    /\ \/ \E d \in Docs : doc = [op |-> "read", arg |-> d]
       \/ \E t \in JointTypeStrings : doc = [op |-> "readJointType", arg |-> t]
       \/ \E v \in Visuals(MaxGeom) : doc = [op |-> "readShape", arg |-> v]
    /\ outcome = NoOutcome

Read ==
    /\ doc.op = "read" /\ outcome.op = "none"
    /\ outcome' = [op |-> "read"] @@ read(doc.arg)
    /\ UNCHANGED <<linkmap, calls, mdata, doc>>

ReadJointType ==
    /\ doc.op = "readJointType" /\ outcome.op = "none"
    /\ outcome' = [op |-> "readJointType"] @@ readJointType(doc.arg)
    /\ UNCHANGED <<linkmap, calls, mdata, doc>>

ReadShape ==
    /\ doc.op = "readShape" /\ outcome.op = "none"
    /\ outcome' = [op |-> "readShape"] @@ readShape(doc.arg)
    /\ UNCHANGED <<linkmap, calls, mdata, doc>>

NextRead ==
    \/ Read
    \/ ReadJointType
    \/ ReadShape

SpecRead == InitRead /\ [][NextRead]_vars

----------------------------------------------------------------------------
(* Vocabulary of the claims about the reader                               *)

SupportedJointTypes == {"fixed", "revolute", "prismatic", "screw"}
JointEnumerants == {J_FIXED, J_REVOLUTE, J_PRISMATIC, J_SCREW}
EnumerantOf ==
    [fixed |-> J_FIXED, revolute |-> J_REVOLUTE, prismatic |-> J_PRISMATIC,
     screw |-> J_SCREW]

ShapeTags == {"mesh", "box", "cylinder", "sphere"}
VariantOf == [mesh |-> SP_MESH, box |-> SP_BOX, cylinder |-> SP_CYLINDER, sphere |-> SP_SPHERE]
DataOf ==
    [mesh |-> {"ColladaReader.read", "STLReader.read"}, box |-> {"BoxData"},
     cylinder |-> {"CylinderData"}, sphere |-> {"SphereData"}]
RegisteredExts == {".dae", ".DAE", ".stl", ".STL"}

\* processing this geometry child fails
ChildFails(g) == g.tag \notin ShapeTags \/ (g.tag = "mesh" /\ g.ext \notin RegisteredExts)

\* the first geometry child whose processing fails, 0 when none does
FirstFailing(gs) ==
    IF \E i \in DOMAIN gs : ChildFails(gs[i])
    THEN CHOOSE i \in DOMAIN gs :
            ChildFails(gs[i]) /\ \A k \in 1..(i - 1) : ~ChildFails(gs[k])
    ELSE 0

\* every visual of every link of the document resolves
LinksReadable(d) ==
    \A i \in DOMAIN d.links : \A k \in DOMAIN d.links[i].visuals :
        FirstFailing(d.links[i].visuals[k].geometry) = 0

\* the call raised the error of this text carrying this token, and returned
\* nothing
Raised(text, token) ==
    /\ outcome.kind = "error"
    /\ outcome.exc = "Exception"
    /\ outcome.msg = <<text, token>>
    /\ "value" \notin DOMAIN outcome

\* C9: reading a joint whose type string is outside {fixed, revolute,
\* prismatic, screw} fails with the unsupported-joint-type error carrying the
\* offending token, and the read returns no Model; each of the four
\* supported strings maps to its own enumerant.
C9_UnsupportedJointType ==
    /\ outcome.op = "readJointType" =>
          IF doc.arg \in SupportedJointTypes
          THEN /\ outcome.kind = "ok"
               /\ outcome.value = EnumerantOf[doc.arg]
               /\ \A t \in SupportedJointTypes \ {doc.arg} :
                     EnumerantOf[t] # outcome.value
          ELSE Raised("unsupported joint type: ", doc.arg)
    /\ outcome.op = "read" =>
          LET js == doc.arg.joints
              bad == {i \in DOMAIN js : js[i].type \notin SupportedJointTypes}
          IN  /\ outcome.kind = "ok" =>
                    /\ bad = {}
                    /\ Len(outcome.value.joints) = Len(js)
                    /\ \A i \in DOMAIN js :
                          outcome.value.joints[i].jointType = EnumerantOf[js[i].type]
              /\ (LinksReadable(doc.arg) /\ bad # {}) =>
                    Raised("unsupported joint type: ",
                           js[CHOOSE i \in bad : \A k \in bad : i <= k].type)

\* a document whose second joint has type "teleport" was read: the read
\* raised the error carrying "teleport"
C9_Witness ==
    /\ outcome.op = "read"
    /\ Len(doc.arg.joints) = 2
    /\ doc.arg.joints[1].type = "screw" /\ doc.arg.joints[2].type = "teleport"
    /\ Raised("unsupported joint type: ", "teleport")

\* C10: resolving a shape's geometry dispatches on each child's tag.  When
\* every child resolves (its tag is in {mesh, box, cylinder, sphere}) the
\* resulting Shape has the one primitive variant of the last child, shape
\* type and data both from that child; when a processed child has another
\* tag the resolve fails with the unsupported-shape-type error carrying that
\* tag and no Shape is returned.
C10_GeometryDispatch ==
    outcome.op = "readShape" =>
        LET gs == doc.arg.geometry
            ff == FirstFailing(gs)
        IN  /\ outcome.kind = "ok" => \A i \in DOMAIN gs : gs[i].tag \in ShapeTags
            /\ (ff = 0 /\ gs # <<>>) =>
                  LET last == gs[Len(gs)]
                  IN  /\ outcome.kind = "ok"
                      /\ outcome.value.shapeType = VariantOf[last.tag]
                      /\ outcome.value.data.cls \in DataOf[last.tag]
                      /\ outcome.value.data.val = last.val
            /\ (ff # 0 /\ gs[ff].tag \notin ShapeTags) =>
                  Raised("unsupported shape type: ", gs[ff].tag)

\* a geometry with a box child and then a sphere child was resolved: the
\* Shape is the sphere
C10_Witness ==
    /\ outcome.op = "readShape"
    /\ Len(doc.arg.geometry) = 2
    /\ doc.arg.geometry[1].tag = "box" /\ doc.arg.geometry[2].tag = "sphere"
    /\ doc.arg.geometry[1].val # doc.arg.geometry[2].val
    /\ outcome.kind = "ok"
    /\ outcome.value.shapeType = SP_SPHERE
    /\ outcome.value.data = [cls |-> "SphereData", val |-> doc.arg.geometry[2].val]

====
